---- MODULE Spec2Model ----
(***************************************************************************)
(* A model of helper_functions.py: the sequence cleavage counter, the      *)
(* run-tag matcher, the memoized table loader and the per-experiment       *)
(* aggregation pipeline (process_experiment).                              *)
(*                                                                         *)
(* Python strings are sequences of one-character strings.  A missing       *)
(* (None / NaN) string cell is the value NA.  A numeric cell is <<>> when  *)
(* missing and <<v>> when it holds v.  A float that is a ratio of integers *)
(* is a record [num, den] and is compared by cross-multiplication.         *)
(***************************************************************************)
EXTENDS Integers, Sequences, FiniteSets, TLC

VARIABLES cmcCall, maskCall, storage, cache, storageReads, loadReturn,
          firstLoad, df_full, peCall

vars == <<cmcCall, maskCall, storage, cache, storageReads, loadReturn,
          firstLoad, df_full, peCall>>

(***************************************************************************)
(* Bounds of the model.                                                    *)
(***************************************************************************)
MaxSeqLen == 3
MaxTags == 2
MaxCol == 2
MaxReads == 2
MaxRows == 2
MaxMissedCleavagesArg == 2
MaxMinValuesForCv == 3

(***************************************************************************)
(* Strings.                                                                *)
(***************************************************************************)
NA == <<"<NA>">>

UpperLetters ==
    <<"A","B","C","D","E","F","G","H","I","J","K","L","M",
      "N","O","P","Q","R","S","T","U","V","W","X","Y","Z">>

LowerLetters ==
    <<"a","b","c","d","e","f","g","h","i","j","k","l","m",
      "n","o","p","q","r","s","t","u","v","w","x","y","z">>

\* str.lower() on the letters A..Z
LowerMap ==
    [c \in {UpperLetters[i] : i \in 1..26} |->
       LowerLetters[CHOOSE i \in 1..26 : UpperLetters[i] = c]]

\* str.lower() on one character
LowerChar(c) == IF c \in DOMAIN LowerMap THEN LowerMap[c] ELSE c

\* str.lower()
Lower(s) == [i \in 1..Len(s) |-> LowerChar(s[i])]

\* all strings over alphabet of length lo..hi
StringsOver(alphabet, lo, hi) ==
    UNION {[1..n -> alphabet] : n \in lo..hi}

\* all lists over elems of length lo..hi
ListsOver(elems, lo, hi) ==
    UNION {[1..n -> elems] : n \in lo..hi}

(***************************************************************************)
(* count_missed_cleavages                                                  *)
(***************************************************************************)
trypsin == <<"t","r","y","p","s","i","n">>
lysc == <<"l","y","s","c">>
argc == <<"a","r","g","c">>
chymotrypsin == <<"c","h","y","m","o","t","r","y","p","s","i","n">>
gluc == <<"g","l","u","c">>

\* the cleavage_sites dictionary
cleavage_sites ==
    (trypsin :> <<"R","K">>) @@ (lysc :> <<"K">>) @@ (argc :> <<"R">>) @@
    (chymotrypsin :> <<"F","W","Y">>) @@ (gluc :> <<"E","D">>)

\* cleavage_sites.get(protease.lower(), 'RK')
SitesOf(protease) ==
    LET name == Lower(protease)
    IN IF name \in DOMAIN cleavage_sites THEN cleavage_sites[name]
       ELSE <<"R","K">>

\* aa in sites
InSites(aa, sites) == \E i \in 1..Len(sites) : sites[i] = aa

\* sequence[:-1] (used on non-empty strings only)
AllButLastIncludingLast(s) == s
AllButLast(s) == SubSeq(s, 1, Len(s) - 1)

\* sum(1 for aa in part if aa in sites)
RECURSIVE CountSites(_, _)
CountSites(part, sites) ==
    IF part = <<>> THEN 0
    ELSE (IF InSites(Head(part), sites) THEN 1 ELSE 0)
         + CountSites(Tail(part), sites)

count_missed_cleavages(sequence, protease) ==
    IF sequence = NA \/ Len(sequence) = 0 THEN 0
    ELSE CountSites(AllButLast(sequence), SitesOf(protease))

(***************************************************************************)
(* create_combined_mask                                                    *)
(***************************************************************************)
\* str.endswith(suffix) for one suffix
EndsWithCaseless(s, suffix) ==
    /\ Len(suffix) <= Len(s)
    /\ Lower(SubSeq(s, Len(s) - Len(suffix) + 1, Len(s))) = Lower(suffix)
EndsWith(s, suffix) ==
    /\ Len(suffix) <= Len(s)
    /\ SubSeq(s, Len(s) - Len(suffix) + 1, Len(s)) = suffix

\* Series.str.endswith(tuple(tags), na=False) on one cell
CellEndsWith(cell, tagTuple) ==
    IF cell = NA THEN FALSE
    ELSE \E i \in 1..Len(tagTuple) : EndsWith(cell, tagTuple[i])

\* tags is [kind |-> "str", val |-> string] or [kind |-> "list", val |-> list]
TagList(tags) == IF tags.kind = "str" THEN <<tags.val>> ELSE tags.val

create_combined_mask(column, tags) ==
    [i \in 1..Len(column) |-> CellEndsWith(column[i], TagList(tags))]

(***************************************************************************)
(* load_parquet_cached: functools.lru_cache(maxsize=None) around           *)
(* pd.read_parquet(path, columns=[...]).                                   *)
(***************************************************************************)
RequiredColumns ==
    {"Run", "PG.Q.Value", "PG.MaxLFQ", "Precursor.Normalised", "Precursor.Id",
     "Protein.Group", "Stripped.Sequence", "Modified.Sequence", "Genes",
     "Precursor.Quantity"}

\* pd.read_parquet(path, columns=RequiredColumns) succeeds
Readable(file) == file.exists /\ RequiredColumns \subseteq file.cols

\* the table pd.read_parquet(path, columns=RequiredColumns) builds
ReadParquet(file) == [cols |-> RequiredColumns, data |-> file.data]

\* the cache after a miss on path produced table (maxsize=None: no eviction)
CacheStoreEvicting(c, path, table) == (path :> table)
CacheStore(c, path, table) == (path :> table) @@ c


(***************************************************************************)
(* process_experiment: helpers for frames, groups and floats.              *)
(***************************************************************************)
\* code points in increasing order, for the comparison of strings
AsciiOrder ==
    <<"*", "0", "1", "2", "3", "4", "5", "6", "7", "8", "9">> \o UpperLetters
    \o <<"_">> \o LowerLetters

CharCode(c) == CHOOSE i \in 1..Len(AsciiOrder) : AsciiOrder[i] = c

\* Python's a < b on strings
RECURSIVE StrLess(_, _)
StrLess(a, b) ==
    IF b = <<>> THEN FALSE
    ELSE IF a = <<>> THEN TRUE
    ELSE IF Head(a) # Head(b) THEN CharCode(Head(a)) < CharCode(Head(b))
    ELSE StrLess(Tail(a), Tail(b))

\* the keys of a groupby on a string column, in sorted order
RECURSIVE SortedKeys(_)
SortedKeys(keys) ==
    IF keys = {} THEN <<>>
    ELSE LET m == CHOOSE k \in keys : \A o \in keys \ {k} : StrLess(k, o)
         IN <<m>> \o SortedKeys(keys \ {m})

\* df[mask]
RECURSIVE BoolIndex(_, _)
BoolIndex(df, mask) ==
    IF df = <<>> THEN <<>>
    ELSE (IF Head(mask) THEN <<Head(df)>> ELSE <<>>)
         \o BoolIndex(Tail(df), Tail(mask))

\* df[col] as a list of cells
Column(df, col) == [i \in 1..Len(df) |-> df[i][col]]

\* the group keys of df.groupby(col): the values present, missing keys dropped
GroupKeys(df, col) == {df[i][col] : i \in 1..Len(df)} \ {NA}

\* the rows of one group of df.groupby(col)
RECURSIVE GroupRows(_, _, _)
GroupRows(df, col, key) ==
    IF df = <<>> THEN <<>>
    ELSE (IF Head(df)[col] = key THEN <<Head(df)>> ELSE <<>>)
         \o GroupRows(Tail(df), col, key)

\* Series.nunique(): the distinct values present, missing cells not counted
NUnique(cells) == Cardinality({cells[i] : i \in 1..Len(cells)} \ {NA})

\* the present values of a numeric column (a cell is <<>> or <<v>>)
RECURSIVE Present(_)
Present(cells) ==
    IF cells = <<>> THEN <<>> ELSE Head(cells) \o Present(Tail(cells))

RECURSIVE SumOf(_)
SumOf(values) == IF values = <<>> THEN 0 ELSE Head(values) + SumOf(Tail(values))

RECURSIVE SumSqOf(_)
SumSqOf(values) ==
    IF values = <<>> THEN 0
    ELSE Head(values) * Head(values) + SumSqOf(Tail(values))

\* floats: a ratio, not-a-number, or +infinity
Ratio(n, d) == [kind |-> "num", num |-> n, den |-> d]
NaN == [kind |-> "nan", num |-> 0, den |-> 1]
PosInf == [kind |-> "inf", num |-> 1, den |-> 1]

\* .agg(['mean', 'std', 'count']) on the cells of one group; std is kept as
\* its square std2 (the sample variance, ddof = 1)
AggMeanStdCount(cells) ==
    LET v == Present(cells)
        n == Len(v)
        S == SumOf(v)
        Q == SumSqOf(v)
    IN [count |-> n,
        mean |-> IF n = 0 THEN NaN ELSE Ratio(S, n),
        std2 |-> IF n < 2 THEN NaN ELSE Ratio(n * Q - S * S, n * (n - 1))]

\* cv = std / mean, elementwise float division (never raises): the sign of
\* cv and its square
CvOfFillZero(st) ==
    IF st.mean.kind = "nan" \/ st.std2.kind = "nan" \/ st.std2.num = 0 THEN
        [kind |-> "num", sign |-> 0, sq |-> Ratio(0, 1)]
    ELSE IF st.mean.num = 0 THEN
        [kind |-> "inf", sign |-> 1, sq |-> PosInf]
    ELSE
        [kind |-> "num",
         sign |-> IF st.mean.num > 0 THEN 1 ELSE -1,
         sq |-> Ratio(st.std2.num * st.mean.den * st.mean.den,
                      st.std2.den * st.mean.num * st.mean.num)]
CvOf(st) ==
    IF st.mean.kind = "nan" \/ st.std2.kind = "nan" THEN
        [kind |-> "nan", sign |-> 0, sq |-> NaN]
    ELSE IF st.mean.num = 0 THEN
        IF st.std2.num = 0 THEN [kind |-> "nan", sign |-> 0, sq |-> NaN]
        ELSE [kind |-> "inf", sign |-> 1, sq |-> PosInf]
    ELSE
        [kind |-> "num",
         sign |-> IF st.std2.num = 0 THEN 0
                  ELSE IF st.mean.num > 0 THEN 1 ELSE -1,
         sq |-> Ratio(st.std2.num * st.mean.den * st.mean.den,
                      st.std2.den * st.mean.num * st.mean.num)]

\* the threshold 0.2 of cv < 0.2, as ThresholdNum / ThresholdDen
ThresholdNum == 1
ThresholdDen == 5

\* cv < 0.2 (False for NaN and for +inf)
CvBelowThreshold(cv) ==
    /\ cv.kind = "num"
    /\ \/ cv.sign <= 0
       \/ cv.sq.num * ThresholdDen * ThresholdDen
            < ThresholdNum * ThresholdNum * cv.sq.den

\* the row filter count >= min_values_for_cv
SufficientAlways(count, min_values_for_cv) == TRUE
Sufficient(count, min_values_for_cv) == count >= min_values_for_cv

\* (cv < 0.2).sum() over the groups of df.groupby(groupCol)[valueCol] kept by
\* the count filter
CvPassCount(df, groupCol, valueCol, min_values_for_cv) ==
    Cardinality({g \in GroupKeys(df, groupCol) :
        LET st == AggMeanStdCount(Column(GroupRows(df, groupCol, g), valueCol))
        IN /\ Sufficient(st.count, min_values_for_cv)
           /\ CvBelowThreshold(CvOf(st))})

\* Series.drop_duplicates(keep='first')
RECURSIVE DropDuplicates(_, _)
DropDuplicates(cells, seen) ==
    IF cells = <<>> THEN <<>>
    ELSE IF Head(cells) \in seen THEN DropDuplicates(Tail(cells), seen)
    ELSE <<Head(cells)>> \o DropDuplicates(Tail(cells), seen \cup {Head(cells)})

\* min(mc, max_missed_cleavages)
Uncapped(mc, max_missed_cleavages) == mc
Capped(mc, max_missed_cleavages) ==
    IF mc < max_missed_cleavages THEN mc ELSE max_missed_cleavages

\* mc_counts after the loop over unique_peptides
RECURSIVE McCounts(_, _, _)
McCounts(unique_peptides, protease, max_missed_cleavages) ==
    IF unique_peptides = <<>> THEN <<>>
    ELSE LET rest == McCounts(Tail(unique_peptides), protease, max_missed_cleavages)
             mc == count_missed_cleavages(Head(unique_peptides), protease)
             mc_capped == Capped(mc, max_missed_cleavages)
         IN (mc_capped :> (IF mc_capped \in DOMAIN rest THEN rest[mc_capped] ELSE 0) + 1)
            @@ rest

\* the nested calculate_mc_per_run(group): bucket i -> the fraction MC{i}
calculate_mc_per_run(group, protease, max_missed_cleavages) ==
    LET unique_peptides == DropDuplicates(Column(group, "StrippedSequence"), {})
        mc_counts == McCounts(unique_peptides, protease, max_missed_cleavages)
        total == Len(unique_peptides)
    IN [i \in 0..max_missed_cleavages |->
          LET count == IF i \in DOMAIN mc_counts THEN mc_counts[i] ELSE 0
          IN IF total > 0 THEN Ratio(count, total) ELSE Ratio(0, 1)]

\* _df.groupby('Run').apply(calculate_mc_per_run).reset_index(): with no
\* group the function is never called and pandas builds an empty frame that
\* has the columns of _df, so no column MC{i}
mc_per_run_of(df, protease, max_missed_cleavages) ==
    LET runs == SortedKeys(GroupKeys(df, "Run"))
    IN [hasMC |-> runs # <<>>,
        rows |-> [k \in 1..Len(runs) |->
                    [Run |-> runs[k],
                     MC |-> calculate_mc_per_run(GroupRows(df, "Run", runs[k]),
                                                 protease, max_missed_cleavages)]]]

\* the rows one group contributes to _df.groupby('Run', as_index=False).agg
AggRowsOf(df, run) == GroupRows(df, "Run", run)

\* _df.groupby('Run', as_index=False).agg({...}).rename(columns={...})
df_agg_of(df) ==
    LET runs == SortedKeys(GroupKeys(df, "Run"))
    IN [k \in 1..Len(runs) |->
          LET g == AggRowsOf(df, runs[k]) IN
          [Run |-> runs[k],
           peptide |-> NUnique(Column(g, "ModifiedSequence")),
           precursor |-> NUnique(Column(g, "PrecursorId")),
           protein |-> NUnique(Column(g, "ProteinGroup")),
           total_intensity |-> SumOf(Present(Column(g, "PrecursorQuantity")))]]

\* _df_agg.merge(mc_per_run, on='Run', how='left'): mc_per_run holds each
\* run once, so a row of _df_agg meets one row of mc_per_run or none
MergeLeft(agg, mc) ==
    [k \in 1..Len(agg) |->
       LET hits == {j \in 1..Len(mc.rows) : mc.rows[j].Run = agg[k].Run}
       IN IF hits = {} THEN [row |-> agg[k], matched |-> FALSE, MC |-> <<>>]
          ELSE [row |-> agg[k], matched |-> TRUE,
                MC |-> mc.rows[CHOOSE j \in hits : TRUE].MC]]

\* a ratio a + b and i * a (a missing bucket of an unmatched row is NaN)
RatioAdd(a, b) ==
    IF a.kind # "num" \/ b.kind # "num" THEN NaN
    ELSE Ratio(a.num * b.den + b.num * a.den, a.den * b.den)

RatioScale(i, a) == IF a.kind # "num" THEN NaN ELSE Ratio(i * a.num, a.den)

\* avg_mc = 0; for i in range(max + 1): avg_mc += row[MC{i}] * i
RECURSIVE AvgMcUnweighted(_, _)
AvgMcUnweighted(MC, i) ==
    IF i < 0 THEN Ratio(0, 1)
    ELSE RatioAdd(AvgMcUnweighted(MC, i - 1), MC[i])
RECURSIVE AvgMc(_, _)
AvgMc(MC, i) ==
    IF i < 0 THEN Ratio(0, 1)
    ELSE RatioAdd(AvgMc(MC, i - 1), RatioScale(i, MC[i]))

\* the frame process_experiment returns, or the exception it ends with
process_experiment(full, experiment, protease, max_missed_cleavages, min_values_for_cv) ==
    LET mask == create_combined_mask(Column(full, "Run"), experiment.file_tags)
        df == BoolIndex(full, mask)
        PG20 == CvPassCount(df, "ProteinGroup", "PGMaxLFQ", min_values_for_cv)
        Pr20 == CvPassCount(df, "PrecursorId", "PrecursorNormalised",
                           min_values_for_cv)
        mc_per_run == mc_per_run_of(df, protease, max_missed_cleavages)
        merged == MergeLeft(df_agg_of(df), mc_per_run)
    IN IF ~mc_per_run.hasMC
       THEN [outcome |-> "raised", rows |-> <<>>]
       ELSE [outcome |-> "returned",
             rows |->
               [k \in 1..Len(merged) |->
                  LET MC == IF merged[k].matched THEN merged[k].MC
                            ELSE [i \in 0..max_missed_cleavages |-> NaN]
                  IN [Run |-> merged[k].row.Run,
                      peptide |-> merged[k].row.peptide,
                      precursor |-> merged[k].row.precursor,
                      protein |-> merged[k].row.protein,
                      total_intensity |-> merged[k].row.total_intensity,
                      MC |-> MC,
                      avg_MC |-> AvgMc(MC, max_missed_cleavages),
                      PG20 |-> PG20,
                      Pr20 |-> Pr20,
                      total_peptides |-> NUnique(Column(df, "StrippedSequence")),
                      total_protein_groups |-> NUnique(Column(df, "ProteinGroup")),
                      total_precursors |-> NUnique(Column(df, "PrecursorId")),
                      instrument |-> experiment.instrument,
                      method |-> experiment.method]]]

(***************************************************************************)
(* Idle values of the call frames, for the specifications that do not use  *)
(* them.                                                                   *)
(***************************************************************************)
IdleCmc == [sequence |-> NA, protease |-> trypsin, pc |-> "idle", ret |-> 0]
IdleMask == [column |-> <<>>, tags |-> [kind |-> "list", val |-> <<>>],
             pc |-> "idle", ret |-> <<>>]
IdlePe == [pc |-> "idle"]

(***************************************************************************)
(* Specification SpecCount: one call of count_missed_cleavages on every    *)
(* sequence of at most MaxSeqLen residues (or a missing sequence) and      *)
(* every protease name of ProteaseInputs.                                  *)
(***************************************************************************)
Residues == {"R", "K", "F", "W", "Y", "E", "D", "A", "k"}

SequenceInputs == StringsOver(Residues, 0, MaxSeqLen) \cup {NA}

ProteaseInputs ==
    {trypsin, lysc, argc, chymotrypsin, gluc,
     <<"T","r","y","p","s","i","n">>, <<"L","y","s","C">>,
     <<"A","R","G","C">>, <<"G","l","u","C">>,
     <<"C","h","y","m","o","T","r","y","p","s","i","n">>,
     <<"p","e","p","s","i","n">>, <<>>}

InitCount ==
    /\ cmcCall \in {[sequence |-> s, protease |-> p, pc |-> "called", ret |-> 0] :
                      s \in SequenceInputs, p \in ProteaseInputs}
    /\ maskCall = IdleMask
    /\ storage = <<>> /\ cache = <<>> /\ storageReads = <<>>
    /\ loadReturn = <<>> /\ firstLoad = <<>>
    /\ df_full = <<>>
    /\ peCall = IdlePe

CountMissedCleavages ==
    /\ cmcCall.pc = "called"
    /\ cmcCall' = [cmcCall EXCEPT
                     !.ret = count_missed_cleavages(cmcCall.sequence, cmcCall.protease),
                     !.pc = "returned"]
    /\ UNCHANGED <<maskCall, storage, cache, storageReads, loadReturn,
                   firstLoad, df_full, peCall>>

NextCount == CountMissedCleavages

SpecCount == InitCount /\ [][NextCount]_vars

(***************************************************************************)
(* Specification SpecMask: one call of create_combined_mask on every       *)
(* column of at most MaxCol run identifiers and every tags argument (one   *)
(* string, or a list of at most MaxTags strings).                          *)
(***************************************************************************)
Sample_A1 == <<"S","a","m","p","l","e","_","A","1">>
Test_A1 == <<"T","e","s","t","_","A","1">>
Sample_A10 == <<"S","a","m","p","l","e","_","A","1","0">>
A1_test == <<"A","1","_","t","e","s","t">>
TestA10 == <<"T","e","s","t","A","1","0">>
Tag_A1 == <<"A","1">>

RunInputs ==
    {NA, <<>>, Tag_A1, <<"a","1">>, <<"1">>,
     Sample_A1, Test_A1, Sample_A10, A1_test, TestA10}

TagInputs == {Tag_A1, <<"a","1">>, <<"1">>, <<>>, <<"A","1","0">>}

TagsArgs ==
    {[kind |-> "str", val |-> t] : t \in TagInputs}
    \cup {[kind |-> "list", val |-> l] : l \in ListsOver(TagInputs, 0, MaxTags)}

InitMask ==
    /\ maskCall \in {[column |-> c, tags |-> t, pc |-> "called", ret |-> <<>>] :
                       c \in ListsOver(RunInputs, 0, MaxCol), t \in TagsArgs}
    /\ cmcCall = IdleCmc
    /\ storage = <<>> /\ cache = <<>> /\ storageReads = <<>>
    /\ loadReturn = <<>> /\ firstLoad = <<>>
    /\ df_full = <<>>
    /\ peCall = IdlePe

CreateCombinedMask ==
    /\ maskCall.pc = "called"
    /\ maskCall' = [maskCall EXCEPT
                      !.ret = create_combined_mask(maskCall.column, maskCall.tags),
                      !.pc = "returned"]
    /\ UNCHANGED <<cmcCall, storage, cache, storageReads, loadReturn,
                   firstLoad, df_full, peCall>>

NextMask == CreateCombinedMask

SpecMask == InitMask /\ [][NextMask]_vars

(***************************************************************************)
(* Specification SpecLoad: calls of load_parquet_cached on the paths of    *)
(* Paths, interleaved with rewrites of the files by the environment.       *)
(* storageReads counts the reads of storage that produced a table, and     *)
(* firstLoad records the table of the first such read of each path.        *)
(***************************************************************************)
Paths == {"a.parquet", "b.parquet"}

Files ==
    {[exists |-> FALSE, cols |-> {}, data |-> 0],
     [exists |-> TRUE, cols |-> RequiredColumns \ {"Genes"}, data |-> 1],
     [exists |-> TRUE, cols |-> RequiredColumns, data |-> 1],
     [exists |-> TRUE, cols |-> RequiredColumns \cup {"Q.Value"}, data |-> 2]}

NoReturn == [path |-> "", outcome |-> "none", table |-> [cols |-> {}, data |-> 0]]

InitLoad ==
    /\ storage \in [Paths -> Files]
    /\ cache = <<>>
    /\ storageReads = [p \in Paths |-> 0]
    /\ loadReturn = NoReturn
    /\ firstLoad = <<>>
    /\ cmcCall = IdleCmc
    /\ maskCall = IdleMask
    /\ df_full = <<>>
    /\ peCall = IdlePe

\* the environment replaces a file
RewriteFile(path, file) ==
    /\ storage[path] # file
    /\ storage' = [storage EXCEPT ![path] = file]
    /\ UNCHANGED <<cache, storageReads, loadReturn, firstLoad,
                   cmcCall, maskCall, df_full, peCall>>

LoadParquetCached(path) ==
    /\ IF path \in DOMAIN cache
       THEN /\ loadReturn' = [path |-> path, outcome |-> "table", table |-> cache[path]]
            /\ UNCHANGED <<cache, storageReads, firstLoad>>
       ELSE IF ~Readable(storage[path])
       THEN /\ loadReturn' = [NoReturn EXCEPT !.path = path, !.outcome = "raised"]
            /\ UNCHANGED <<cache, storageReads, firstLoad>>
       ELSE /\ storageReads[path] < MaxReads
            /\ storageReads' = [storageReads EXCEPT ![path] = @ + 1]
            /\ cache' = CacheStore(cache, path, ReadParquet(storage[path]))
            /\ firstLoad' = IF path \in DOMAIN firstLoad THEN firstLoad
                            ELSE (path :> ReadParquet(storage[path])) @@ firstLoad
            /\ loadReturn' = [path |-> path, outcome |-> "table",
                              table |-> ReadParquet(storage[path])]
    /\ UNCHANGED <<storage, cmcCall, maskCall, df_full, peCall>>

NextLoad ==
    \/ \E path \in Paths, file \in Files : RewriteFile(path, file)
    \/ \E path \in Paths : LoadParquetCached(path)

SpecLoad == InitLoad /\ [][NextLoad]_vars

(***************************************************************************)
(* Specification SpecExp: a quantification table of at most MaxRows rows   *)
(* is built row by row, then process_experiment is called on it with an    *)
(* experiment of Experiments, a protease, max_missed_cleavages in          *)
(* 0..MaxMissedCleavagesArg and min_values_for_cv in 1..MaxMinValuesForCv. *)
(***************************************************************************)
X_A1 == <<"X", "_", "A", "1">>
X_A2 == <<"X", "_", "A", "2">>

\* stripped sequences with 0, 1 and 3 missed cleavages under trypsin
Seq_AK == <<"A", "K">>
Seq_KAK == <<"K", "A", "K">>
Seq_KRKA == <<"K", "R", "K", "A">>

\* the modified sequence of a stripped sequence: unmodified, or marked
Modified(stripped, marked) == IF marked THEN stripped \o <<"*">> ELSE stripped

BaseRow ==
    [Run |-> X_A1, ProteinGroup |-> <<"P", "1">>, PGMaxLFQ |-> <<10>>,
     PrecursorId |-> <<"p", "r", "1">>, PrecursorNormalised |-> <<10>>,
     PrecursorQuantity |-> <<1>>, StrippedSequence |-> Seq_AK,
     ModifiedSequence |-> Seq_AK]

\* the rows of the tables: the base row, and the rows that differ from it in
\* the run or in the columns one step of the pipeline reads
RowInputs ==
    {BaseRow,
     [BaseRow EXCEPT !.PGMaxLFQ = <<12>>],
     [BaseRow EXCEPT !.PGMaxLFQ = <<0>>],
     [BaseRow EXCEPT !.PGMaxLFQ = <<-10>>],
     [BaseRow EXCEPT !.PGMaxLFQ = <<>>],
     [BaseRow EXCEPT !.PrecursorNormalised = <<0>>],
     [BaseRow EXCEPT !.ProteinGroup = <<"P", "2">>,
                     !.PrecursorId = <<"p", "r", "2">>,
                     !.PrecursorQuantity = <<2>>],
     [BaseRow EXCEPT !.StrippedSequence = Seq_KAK,
                     !.ModifiedSequence = Modified(Seq_KAK, FALSE)],
     [BaseRow EXCEPT !.StrippedSequence = Seq_KRKA,
                     !.ModifiedSequence = Modified(Seq_KRKA, FALSE)],
     [BaseRow EXCEPT !.ModifiedSequence = Modified(Seq_AK, TRUE)],
     [BaseRow EXCEPT !.Run = X_A2, !.StrippedSequence = Seq_KRKA,
                     !.ModifiedSequence = Modified(Seq_KRKA, FALSE)],
     [BaseRow EXCEPT !.Run = NA]}

Experiments ==
    {[file_tags |-> [kind |-> "list", val |-> <<Tag_A1>>],
      instrument |-> "Astral", method |-> "DIA"],
     [file_tags |-> [kind |-> "str", val |-> <<"A", "2">>],
      instrument |-> "Exploris", method |-> "DIA"],
     [file_tags |-> [kind |-> "list", val |-> <<Tag_A1, <<"A", "2">>>>],
      instrument |-> "Astral", method |-> "DDA"]}

InitExp ==
    /\ df_full = <<>>
    /\ peCall = IdlePe
    /\ cmcCall = IdleCmc
    /\ maskCall = IdleMask
    /\ storage = <<>> /\ cache = <<>> /\ storageReads = <<>>
    /\ loadReturn = <<>> /\ firstLoad = <<>>

\* the loaded table gains a row (before the experiment is processed)
AddRow ==
    /\ peCall.pc = "idle"
    /\ Len(df_full) < MaxRows
    /\ \E row \in RowInputs : df_full' = Append(df_full, row)
    /\ UNCHANGED <<peCall, cmcCall, maskCall, storage, cache, storageReads,
                   loadReturn, firstLoad>>

\* one call process_experiment(df_full, experiment, protease,
\* max_missed_cleavages, min_values_for_cv)
ProcessExperiment ==
    /\ peCall.pc = "idle"
    /\ \E experiment \in Experiments, protease \in {trypsin, lysc},
          max_missed_cleavages \in 0..MaxMissedCleavagesArg,
          min_values_for_cv \in 1..MaxMinValuesForCv :
         LET res == process_experiment(df_full, experiment, protease,
                                       max_missed_cleavages, min_values_for_cv)
         IN peCall' = [pc |-> res.outcome,
                       experiment |-> experiment,
                       protease |-> protease,
                       max_missed_cleavages |-> max_missed_cleavages,
                       min_values_for_cv |-> min_values_for_cv,
                       rows |-> res.rows]
    /\ UNCHANGED <<df_full, cmcCall, maskCall, storage, cache, storageReads,
                   loadReturn, firstLoad>>

NextExp == AddRow \/ ProcessExperiment

SpecExp == InitExp /\ [][NextExp]_vars

(***************************************************************************)
(* C6: count_missed_cleavages(sequence, protease) is the number of         *)
(* residues of the sequence, its final residue excluded, that belong to    *)
(* the protease's cleavage-site set (trypsin {R,K}, lysc {K}, argc {R},    *)
(* chymotrypsin {F,W,Y}, gluc {E,D}; the name compared without regard to   *)
(* case, any other name treated as trypsin); so it is 0 for the empty or   *)
(* missing sequence and for every single-residue sequence, and the call    *)
(* always returns.                                                         *)
(***************************************************************************)
ClaimedSiteSet(protease) ==
    LET n == Lower(protease) IN
    CASE n = lysc -> {"K"}
      [] n = argc -> {"R"}
      [] n = chymotrypsin -> {"F", "W", "Y"}
      [] n = gluc -> {"E", "D"}
      [] OTHER -> {"R", "K"}

C6_CountIsInteriorSites ==
    /\ cmcCall.pc \in {"called", "returned"}
    /\ cmcCall.pc = "returned" =>
         LET s == cmcCall.sequence IN
         /\ s = NA => cmcCall.ret = 0
         /\ s # NA =>
              cmcCall.ret =
                Cardinality({i \in 1..(Len(s) - 1) :
                               s[i] \in ClaimedSiteSet(cmcCall.protease)})
         /\ (s # NA /\ Len(s) <= 1) => cmcCall.ret = 0

\* a returned call on a sequence whose final residue is a cleavage site,
\* under a protease name that is not a key of the dictionary as written
C6_Witness ==
    /\ cmcCall.pc = "returned"
    /\ cmcCall.sequence # NA
    /\ Len(cmcCall.sequence) = 3
    /\ cmcCall.sequence[3] \in ClaimedSiteSet(cmcCall.protease)
    /\ cmcCall.protease \notin DOMAIN cleavage_sites
    /\ Lower(cmcCall.protease) = gluc
    /\ cmcCall.ret = 1

(***************************************************************************)
(* C7: create_combined_mask returns one boolean per row, in row order;     *)
(* entry i is true iff the run identifier of row i is present and ends,    *)
(* case-sensitively, with at least one of the tags (one string counts as   *)
(* a one-element list).  Tag 'A1' selects 'Sample_A1' and 'Test_A1' but    *)
(* not 'Sample_A10', 'A1_test' or 'TestA10'.                               *)
(***************************************************************************)
ClaimedTags(tags) ==
    IF tags.kind = "str" THEN {tags.val}
    ELSE {tags.val[i] : i \in 1..Len(tags.val)}

\* run is some prefix followed by tag
HasSuffix(run, tag) ==
    \E k \in 0..Len(run) :
        /\ Len(run) - k = Len(tag)
        /\ \A j \in 1..Len(tag) : run[k + j] = tag[j]

C7_MaskIsSuffixMatch ==
    maskCall.pc = "returned" =>
        /\ Len(maskCall.ret) = Len(maskCall.column)
        /\ \A i \in 1..Len(maskCall.column) :
             LET run == maskCall.column[i] IN
             /\ maskCall.ret[i] <=>
                  (run # NA /\ \E t \in ClaimedTags(maskCall.tags) : HasSuffix(run, t))
             /\ ClaimedTags(maskCall.tags) = {Tag_A1} =>
                  /\ run \in {Sample_A1, Test_A1} => maskCall.ret[i]
                  /\ run \in {Sample_A10, A1_test, TestA10} => ~maskCall.ret[i]

\* tag 'A1' given as one string, on a column holding a selected and a
\* rejected run in that order
C7_Witness ==
    /\ maskCall.pc = "returned"
    /\ maskCall.tags = [kind |-> "str", val |-> Tag_A1]
    /\ maskCall.column = <<Sample_A1, Sample_A10>>
    /\ maskCall.ret = <<TRUE, FALSE>>

(***************************************************************************)
(* C8: over any sequence of load_parquet_cached calls, storage is read at  *)
(* most once per path that has loaded successfully; every later call on    *)
(* that path returns the table of that first load, whatever other paths    *)
(* were loaded in between and whatever the file holds by then.             *)
(***************************************************************************)
C8_ReadOncePerPath ==
    /\ \A p \in Paths : storageReads[p] <= 1
    /\ \A p \in Paths : storageReads[p] = 1 <=> p \in DOMAIN firstLoad
    /\ \A p \in DOMAIN firstLoad : p \in DOMAIN cache /\ cache[p] = firstLoad[p]
    /\ (loadReturn.outcome = "table" /\ loadReturn.path \in DOMAIN firstLoad)
          => loadReturn.table = firstLoad[loadReturn.path]
    /\ loadReturn.outcome = "raised" => loadReturn.path \notin DOMAIN firstLoad

\* both paths loaded, and a call on a path returned its first table after
\* the file behind it was replaced by one with other data
C8_Witness ==
    /\ DOMAIN firstLoad = Paths
    /\ loadReturn.outcome = "table"
    /\ Readable(storage[loadReturn.path])
    /\ ReadParquet(storage[loadReturn.path]) # loadReturn.table
    /\ storageReads[loadReturn.path] = 1

(***************************************************************************)
(* The statements about process_experiment are written against the table   *)
(* df_full and the arguments of the call, not against the operators of     *)
(* the model: the rows the experiment selects, the runs among them, and    *)
(* sums over sets of row indices.                                          *)
(***************************************************************************)
Called == peCall.pc # "idle"
Returned == peCall.pc = "returned"

SelectedIdx ==
    {i \in 1..Len(df_full) :
        /\ df_full[i].Run # NA
        /\ \E t \in ClaimedTags(peCall.experiment.file_tags) :
              HasSuffix(df_full[i].Run, t)}

MatchedRuns == {df_full[i].Run : i \in SelectedIdx}

IdxOfRun(run) == {i \in SelectedIdx : df_full[i].Run = run}

IdxOfGroup(col, g) == {i \in SelectedIdx : df_full[i][col] = g}

ObservedIdx(S, col) == {i \in S : df_full[i][col] # <<>>}

RECURSIVE SumIdx(_, _)
SumIdx(S, col) ==
    IF S = {} THEN 0
    ELSE LET i == CHOOSE j \in S : TRUE
         IN df_full[i][col][1] + SumIdx(S \ {i}, col)

RECURSIVE SumSqIdx(_, _)
SumSqIdx(S, col) ==
    IF S = {} THEN 0
    ELSE LET i == CHOOSE j \in S : TRUE
         IN df_full[i][col][1] * df_full[i][col][1] + SumSqIdx(S \ {i}, col)

\* sum of f[0] .. f[n]
RECURSIVE SumTo(_, _)
SumTo(f, n) == IF n < 0 THEN 0 ELSE f[n] + SumTo(f, n - 1)

(***************************************************************************)
(* C1: process_experiment returns exactly one row per distinct run         *)
(* identifier that ends with one of the experiment's tags and no row for   *)
(* any other run; in each row peptide, precursor and protein are the       *)
(* numbers of distinct modified sequences, precursor identifiers and       *)
(* protein-group identifiers among that run's own rows, and                *)
(* total_intensity is the sum of the raw precursor quantity over them.     *)
(***************************************************************************)
C1_RowsAreTheMatchedRuns ==
    /\ Len(peCall.rows) = Cardinality(MatchedRuns)
    /\ {peCall.rows[k].Run : k \in 1..Len(peCall.rows)} = MatchedRuns
    /\ \A k \in 1..Len(peCall.rows) :
         LET S == IdxOfRun(peCall.rows[k].Run) IN
         /\ peCall.rows[k].peptide
              = Cardinality({df_full[i].ModifiedSequence : i \in S})
         /\ peCall.rows[k].precursor
              = Cardinality({df_full[i].PrecursorId : i \in S})
         /\ peCall.rows[k].protein
              = Cardinality({df_full[i].ProteinGroup : i \in S})
         /\ peCall.rows[k].total_intensity
              = SumIdx(ObservedIdx(S, "PrecursorQuantity"), "PrecursorQuantity")

C1_OneRowPerMatchedRun ==
    Called => (Returned /\ C1_RowsAreTheMatchedRuns)

\* what holds of the code: the same, for the calls whose tags select a row
C1_HoldsWhenSomeRowMatches ==
    (Called /\ SelectedIdx # {}) => (Returned /\ C1_RowsAreTheMatchedRuns)

(***************************************************************************)
(* C2: when the experiment's tags match no row of the table,               *)
(* process_experiment completes without raising and returns a result with  *)
(* no rows, for every max_missed_cleavages >= 0.                           *)
(***************************************************************************)
C2_NoMatchReturnsNoRows ==
    (Called /\ SelectedIdx = {}) => (Returned /\ peCall.rows = <<>>)

(***************************************************************************)
(* C3: for every run of the output, each distinct stripped sequence of     *)
(* the run is counted in exactly one bucket, bucket min(missed cleavages,  *)
(* max_missed_cleavages); the fractions MC0..MC{max} sum to 1 when the run *)
(* has a distinct stripped sequence; a group with none gets 0 in every     *)
(* bucket.                                                                 *)
(***************************************************************************)
BucketOf(seq) ==
    LET mc == count_missed_cleavages(seq, peCall.protease)
    IN IF mc <= peCall.max_missed_cleavages THEN mc
       ELSE peCall.max_missed_cleavages

ClaimedCvBelow(S, col) ==
    LET n == Cardinality(S)
        sum == SumIdx(S, col)
        sumsq == SumSqIdx(S, col)
    IN /\ n >= 2
       /\ sum # 0
       /\ \/ sum < 0
          \/ ThresholdDen * ThresholdDen * n * (n * sumsq - sum * sum)
               < ThresholdNum * ThresholdNum * (n - 1) * sum * sum

ClaimedPassing(groupCol, valueCol) ==
    {g \in {df_full[i][groupCol] : i \in SelectedIdx} :
        LET S == ObservedIdx(IdxOfGroup(groupCol, g), valueCol)
        IN /\ Cardinality(S) >= peCall.min_values_for_cv
           /\ ClaimedCvBelow(S, valueCol)}

C4_PassCountNeedsEnoughValues ==
    Returned =>
      \A k \in 1..Len(peCall.rows) :
        /\ peCall.rows[k].PG20
             = Cardinality(ClaimedPassing("ProteinGroup", "PGMaxLFQ"))
        /\ peCall.rows[k].Pr20
             = Cardinality(ClaimedPassing("PrecursorId", "PrecursorNormalised"))

\* a protein group with two equal values (CV 0) that is not counted because
\* min_values_for_cv is 3, while the precursor count differs from PG20
C4_Witness ==
    /\ Returned
    /\ peCall.min_values_for_cv = 3
    /\ \E g \in {df_full[i].ProteinGroup : i \in SelectedIdx} :
         LET S == ObservedIdx(IdxOfGroup("ProteinGroup", g), "PGMaxLFQ")
         IN Cardinality(S) = 2 /\ ClaimedCvBelow(S, "PGMaxLFQ")
    /\ \A k \in 1..Len(peCall.rows) : peCall.rows[k].PG20 = 0

(***************************************************************************)
(* C5: a protein group or precursor whose mean quantity over the filtered  *)
(* rows is 0 is never counted in PG20 / Pr20, whether its standard         *)
(* deviation is positive or 0, and computing its CV does not raise: the    *)
(* call returns, with the counts of the table without those groups.        *)
(***************************************************************************)
ZeroMeanGroups(groupCol, valueCol) ==
    {g \in {df_full[i][groupCol] : i \in SelectedIdx} :
        LET S == ObservedIdx(IdxOfGroup(groupCol, g), valueCol)
        IN S # {} /\ SumIdx(S, valueCol) = 0}

\* the rows of df_full from row i on that are in keep and whose group (by
\* groupCol) is not in zero
RECURSIVE RowsOutside(_, _, _, _)
RowsOutside(i, keep, groupCol, zero) ==
    IF i > Len(df_full) THEN <<>>
    ELSE (IF i \in keep /\ df_full[i][groupCol] \notin zero
          THEN <<df_full[i]>> ELSE <<>>)
         \o RowsOutside(i + 1, keep, groupCol, zero)

\* the pass count of the selected rows without the groups of mean 0
CountWithoutZeroMean(groupCol, valueCol) ==
    CvPassCount(RowsOutside(1, SelectedIdx, groupCol,
                            ZeroMeanGroups(groupCol, valueCol)),
                groupCol, valueCol, peCall.min_values_for_cv)

C5_ZeroMeanNeverCounted ==
    (Called /\ SelectedIdx # {}) =>
      /\ Returned
      /\ LET pg == CountWithoutZeroMean("ProteinGroup", "PGMaxLFQ")
             pr == CountWithoutZeroMean("PrecursorId", "PrecursorNormalised")
             allPgZero == ZeroMeanGroups("ProteinGroup", "PGMaxLFQ")
                            = {df_full[i].ProteinGroup : i \in SelectedIdx}
             allPrZero == ZeroMeanGroups("PrecursorId", "PrecursorNormalised")
                            = {df_full[i].PrecursorId : i \in SelectedIdx}
         IN \A k \in 1..Len(peCall.rows) :
              /\ peCall.rows[k].PG20 = pg
              /\ peCall.rows[k].Pr20 = pr
              /\ allPgZero => peCall.rows[k].PG20 = 0
              /\ allPrZero => peCall.rows[k].Pr20 = 0

\* a returned call with a precursor of two observations that are both 0
\* (mean 0, standard deviation 0) and enough of them for the CV
C5_Witness ==
    /\ Returned
    /\ peCall.min_values_for_cv = 2
    /\ \E g \in ZeroMeanGroups("PrecursorId", "PrecursorNormalised") :
         LET S == ObservedIdx(IdxOfGroup("PrecursorId", g), "PrecursorNormalised")
         IN Cardinality(S) = 2 /\ SumSqIdx(S, "PrecursorNormalised") = 0
    /\ \A k \in 1..Len(peCall.rows) :
         peCall.rows[k].Pr20 = 0 /\ peCall.rows[k].PG20 = 1

(***************************************************************************)
(* C9: every output row of one call carries the same experiment-wide       *)
(* values: total_peptides, total_protein_groups and total_precursors are   *)
(* the numbers of distinct peptides (by modified sequence, as for the      *)
(* per-run peptide count), protein groups and precursors across all        *)
(* filtered rows; PG20, Pr20, instrument and method are the same on every  *)
(* row.                                                                    *)
(***************************************************************************)
C9_BroadcastTotals ==
    Returned =>
      \A k \in 1..Len(peCall.rows) :
        /\ peCall.rows[k].total_peptides
             = Cardinality({df_full[i].ModifiedSequence : i \in SelectedIdx})
        /\ peCall.rows[k].total_protein_groups
             = Cardinality({df_full[i].ProteinGroup : i \in SelectedIdx})
        /\ peCall.rows[k].total_precursors
             = Cardinality({df_full[i].PrecursorId : i \in SelectedIdx})
        /\ peCall.rows[k].instrument = peCall.experiment.instrument
        /\ peCall.rows[k].method = peCall.experiment.method
        /\ peCall.rows[k].PG20 = peCall.rows[1].PG20
        /\ peCall.rows[k].Pr20 = peCall.rows[1].Pr20

\* what holds of the code: the same with total_peptides counted by
\* stripped sequence
C9_TotalsByStrippedSequence ==
    Returned =>
      \A k \in 1..Len(peCall.rows) :
        /\ peCall.rows[k].total_peptides
             = Cardinality({df_full[i].StrippedSequence : i \in SelectedIdx})
        /\ peCall.rows[k].total_protein_groups
             = Cardinality({df_full[i].ProteinGroup : i \in SelectedIdx})
        /\ peCall.rows[k].total_precursors
             = Cardinality({df_full[i].PrecursorId : i \in SelectedIdx})
        /\ peCall.rows[k].instrument = peCall.experiment.instrument
        /\ peCall.rows[k].method = peCall.experiment.method
        /\ peCall.rows[k].PG20 = peCall.rows[1].PG20
        /\ peCall.rows[k].Pr20 = peCall.rows[1].Pr20

(***************************************************************************)
(* C10: in every output row avg_MC is the sum over the buckets i in        *)
(* 0..max_missed_cleavages of i times that row's MC{i}, the fractions of   *)
(* that run's own sequences; so 0 <= avg_MC <= max_missed_cleavages, and   *)
(* MC0 = 0.5, MC1 = 0.3, MC2 = 0.2 gives 0.7.                              *)
(***************************************************************************)
RatioEq(a, b) == a.kind = "num" /\ b.kind = "num" /\ a.num * b.den = b.num * a.den

C10_AvgIsWeightedSum ==
    Returned =>
      /\ RatioEq(AvgMc((0 :> Ratio(5, 10)) @@ (1 :> Ratio(3, 10)) @@ (2 :> Ratio(2, 10)), 2),
                 Ratio(7, 10))
      /\ \A k \in 1..Len(peCall.rows) :
           LET row == peCall.rows[k]
               max == peCall.max_missed_cleavages
               distinct == {df_full[i].StrippedSequence : i \in IdxOfRun(row.Run)}
               own == [b \in 0..max |-> b * Cardinality({q \in distinct : BucketOf(q) = b})]
           IN /\ row.avg_MC.kind = "num" /\ row.avg_MC.den > 0
              /\ row.avg_MC.num * row.MC[0].den
                   = SumTo([b \in 0..max |-> b * row.MC[b].num], max) * row.avg_MC.den
              /\ row.avg_MC.num * Cardinality(distinct)
                   = SumTo(own, max) * row.avg_MC.den
              /\ 0 <= row.avg_MC.num
              /\ row.avg_MC.num <= max * row.avg_MC.den

\* two runs in the output whose averages differ: one with its only sequence
\* in bucket 1 (average 1), one with its only sequence in bucket 2 (average 2)
C10_Witness ==
    /\ Returned
    /\ peCall.max_missed_cleavages = 2
    /\ Len(peCall.rows) = 2
    /\ \E k \in 1..2 :
         /\ peCall.rows[k].MC[1] = Ratio(1, 1)
         /\ RatioEq(peCall.rows[k].avg_MC, Ratio(1, 1))
    /\ \E k \in 1..2 :
         /\ peCall.rows[k].MC[2] = Ratio(1, 1)
         /\ RatioEq(peCall.rows[k].avg_MC, Ratio(2, 1))

====
